---------------------------- MODULE Spec2Model ----------------------------
(***************************************************************************)
(* A model of the calendar pipeline of ai-calendar:                        *)
(*   src/calendar_parser.py     parse_calendar, parse_multiple_calendars   *)
(*   src/google_calendar_api.py get_events_from_google_calendar            *)
(*                                                                         *)
(* Time.  An aware datetime is its UTC instant, an integer number of       *)
(* seconds since 2025-03-01T00:00:00Z.  A naive datetime is its wall-clock *)
(* reading on the same scale, a date is the wall-clock reading of its      *)
(* midnight.  A decoded property value is a record [k, v] whose k tells    *)
(* which of the three python types (date, naive datetime, aware datetime)  *)
(* the decoder produced, or "none" when the property is absent.            *)
(***************************************************************************)
EXTENDS Integers, Sequences, FiniteSets, TLC

\* ------------------------------------------------------------------ time

\* timedelta(hours=1), the default length of an event without DTEND
OneHour == 3600

\* timedelta(days=1): the unit of days_ahead
OneDay == 86400

\* the tolerance of the EXDATE comparison, in seconds
ExdateTolerance == 60

\* seconds in a minute, the divisor of duration_minutes
SecondsPerMinute == 60

NoneVal == [k |-> "none", v |-> 0]

DateVal(d) == [k |-> "date", v |-> d]

NaiveVal(w) == [k |-> "naive", v |-> w]

AwareVal(u) == [k |-> "aware", v |-> u]

\* The zones of the timezone database that the model knows.  Any other name
\* makes pytz.timezone raise UnknownTimeZoneError.
KnownZones == {"UTC", "America/New_York"}

UnknownZone == "Mars/Phobos"

\* America/New_York springs forward on 2025-03-09 at 02:00 EST = 07:00 UTC.
DstTransitionUtc == 8 * OneDay + 7 * OneHour

EstOffset == 0 - 5 * OneHour

EdtOffset == 0 - 4 * OneHour

\* utcoffset of an instant in a zone (tzinfo.utcoffset after astimezone)
UtcOffset(zone, utc) ==
  IF zone = "America/New_York"
    THEN IF utc < DstTransitionUtc THEN EstOffset ELSE EdtOffset
    ELSE 0

\* dt.astimezone(pytz.timezone(zone)): the wall-clock reading of an instant
ToWall(utc, zone) == utc + UtcOffset(zone, utc)

\* pytz.timezone(zone).localize(naive), is_dst=False: the instant of a
\* wall-clock reading.  A reading inside the spring-forward gap keeps the
\* standard offset.
Localize(wall, zone) ==
  IF zone = "America/New_York"
    THEN IF wall < DstTransitionUtc + EdtOffset
           THEN wall - EstOffset
           ELSE wall - EdtOffset
    ELSE wall

\* int(x / 60) of python: the quotient truncated toward zero
TruncDiv(x, d) == IF x >= 0 THEN x \div d ELSE 0 - ((0 - x) \div d)

\* int(duration.total_seconds() / 60)
DurationMinutes(seconds) == TruncDiv(seconds, SecondsPerMinute)

\* ------------------------------------------------------- recurrence rule

NoRule == [freq |-> "NONE", interval |-> 0, count |-> 0]

\* a rule string that rrulestr rejects
BadRule == [freq |-> "BAD", interval |-> 0, count |-> 0]

\* the length of one step of a frequency evaluated in the UTC frame
FreqSeconds(freq) ==
  CASE freq = "SECONDLY" -> 1
    [] freq = "MINUTELY" -> SecondsPerMinute
    [] freq = "HOURLY" -> OneHour
    [] freq = "DAILY" -> OneDay
    [] freq = "WEEKLY" -> 7 * OneDay
    [] OTHER -> 1

RulePeriod(rule) == FreqSeconds(rule.freq) * rule.interval

Max(a, b) == IF a >= b THEN a ELSE b

Min(a, b) == IF a <= b THEN a ELSE b

\* ceiling of a / b for b > 0
CeilDiv(a, b) == IF a <= 0 THEN 0 - ((0 - a) \div b) ELSE (a + b - 1) \div b

\* rule.between(after, before, inc=False): the instants strictly inside
BetweenExclusive(rule, seed, after, before) ==
  LET p == RulePeriod(rule)
      kLo == Max(0, CeilDiv(after + 1 - seed, p))
      kTop == IF before - 1 < seed THEN 0 - 1 ELSE (before - 1 - seed) \div p
      kHi == IF rule.count > 0 THEN Min(kTop, rule.count - 1) ELSE kTop
  IN  IF kHi < kLo THEN << >>
      ELSE [n \in 1..(kHi - kLo + 1) |-> seed + (kLo + n - 1) * p]

\* a between that takes the instants of [after, before), the upper bound left
\* out
BetweenOpenEnd(rule, seed, after, before) ==
  LET p == RulePeriod(rule)
      kLo == Max(0, CeilDiv(after - seed, p))
      kTop == IF before - 1 < seed THEN 0 - 1 ELSE (before - 1 - seed) \div p
      kHi == IF rule.count > 0 THEN Min(kTop, rule.count - 1) ELSE kTop
  IN  IF kHi < kLo THEN << >>
      ELSE [n \in 1..(kHi - kLo + 1) |-> seed + (kLo + n - 1) * p]

\* rule.between(after, before, inc=True) of a rule seeded at seed: the
\* instants seed + k * period, k >= 0 (k < COUNT when the rule has one), that
\* lie in [after, before], in ascending order.
Between(rule, seed, after, before) ==
  LET p == RulePeriod(rule)
      kLo == Max(0, CeilDiv(after - seed, p))
      kTop == IF before < seed THEN 0 - 1 ELSE (before - seed) \div p
      kHi == IF rule.count > 0 THEN Min(kTop, rule.count - 1) ELSE kTop
  IN  IF kHi < kLo THEN << >>
      ELSE [n \in 1..(kHi - kLo + 1) |-> seed + (kLo + n - 1) * p]


\* ------------------------------------------------------------ components

NoDuration == [k |-> "none", v |-> 0]

DurationVal(s) == [k |-> "duration", v |-> s]

\* component.get(...).dt of a DTSTART, DTEND, RECURRENCE-ID or EXDATE value
\* that is a date and not a datetime
IsDateOnly(val) == val.k = "date"

\* First pass, lines 120-126 and 137-142: a date becomes midnight of that
\* day, and a naive reading is localized with the calendar's zone.
ToAware(val, cal_timezone) ==
  IF val.k = "aware" THEN val.v ELSE Localize(val.v, cal_timezone)

\* Second and third pass, lines 179-186, 224-230, 280-286: `.tzinfo` is read
\* off the raw value, which raises AttributeError on a date.
HasTzinfoAttr(val) == ~IsDateOnly(val)

\* Lines 128-142: the end the first pass computes for a component.
FirstPassEnd(c, start_dt, cal_timezone) ==
  IF c.dtend = NoneVal
    THEN IF c.duration # NoDuration
           THEN start_dt + c.duration.v
           ELSE start_dt + OneHour
    ELSE ToAware(c.dtend, cal_timezone)

\* Lines 180 and 185-186, 225 and 229-230, 281 and 285-286: the end the
\* second and third pass compute.  DURATION is not read; the hour is added
\* to the raw start, before it is localized.
LaterPassEnd(c, cal_timezone) ==
  IF c.dtend = NoneVal
    THEN IF c.dtstart.k = "aware"
           THEN c.dtstart.v + OneHour
           ELSE Localize(c.dtstart.v + OneHour, cal_timezone)
    ELSE ToAware(c.dtend, cal_timezone)

\* Lines 158-160: the window test of a non-recurring event.
InWindow(start_dt, end_dt, window_start, window_end) ==
  \/ (window_start <= start_dt /\ start_dt < window_end)
  \/ (window_start <= end_dt /\ end_dt < window_end)
  \/ (start_dt <= window_start /\ end_dt >= window_end)

\* a map of the series that keeps the first component stored under a uid
PutSeriesKeepFirst(recurring_events, uid, c) ==
  IF \E n \in 1..Len(recurring_events) : recurring_events[n].uid = uid
    THEN recurring_events
    ELSE Append(recurring_events, [uid |-> uid, component |-> c])

\* recurring_events[uid] = (component, []): a dict keeps the position of the
\* first insertion of a key and the value of the last.
PutSeries(recurring_events, uid, c) ==
  IF \E n \in 1..Len(recurring_events) : recurring_events[n].uid = uid
    THEN [n \in 1..Len(recurring_events) |->
            IF recurring_events[n].uid = uid
              THEN [uid |-> uid, component |-> c]
              ELSE recurring_events[n]]
    ELSE Append(recurring_events, [uid |-> uid, component |-> c])

\* modifications[uid][recurrence_id.dt] = component.  The entries are kept in
\* insertion order; a later entry with an equal key shadows an earlier one.
PutModification(modifications, uid, key, c) ==
  Append(modifications, [uid |-> uid, key |-> key, component |-> c])

EmptyPass == [recurring_events |-> << >>, modifications |-> << >>,
              single_events |-> << >>]

\* Lines 106-166: the body of the first loop for one component.
ClassifyComponent(acc, c, cal_timezone, window_start, window_end) ==
  IF c.name # "VEVENT" THEN acc
  ELSE IF c.dtstart = NoneVal THEN acc
  ELSE
    LET start_dt == ToAware(c.dtstart, cal_timezone)
        end_dt == FirstPassEnd(c, start_dt, cal_timezone)
    IN  IF c.rrule # NoRule
          THEN IF c.recurrence_id # NoneVal
                 THEN [acc EXCEPT !.modifications =
                         PutModification(@, c.uid, c.recurrence_id, c)]
                 ELSE [acc EXCEPT !.recurring_events =
                         PutSeries(@, c.uid, c)]
          ELSE IF InWindow(start_dt, end_dt, window_start, window_end)
                 THEN [acc EXCEPT !.single_events = Append(@, c)]
                 ELSE acc

RECURSIVE FirstPassBreak(_, _, _, _, _)
\* a first loop that ends at a VEVENT without DTSTART instead of going on to
\* the next component
FirstPassBreak(components, acc, cal_timezone, window_start, window_end) ==
  IF components = << >> THEN acc
  ELSE IF Head(components).name = "VEVENT"
          /\ Head(components).dtstart = NoneVal
    THEN acc
    ELSE FirstPassBreak(Tail(components),
                        ClassifyComponent(acc, Head(components), cal_timezone,
                                          window_start, window_end),
                        cal_timezone, window_start, window_end)

RECURSIVE FirstPass(_, _, _, _, _)
\* Lines 102-166: the first loop over cal.walk().
FirstPass(components, acc, cal_timezone, window_start, window_end) ==
  IF components = << >> THEN acc
  ELSE FirstPass(Tail(components),
                 ClassifyComponent(acc, Head(components), cal_timezone,
                                   window_start, window_end),
                 cal_timezone, window_start, window_end)

\* modifications.get(uid, {}).get(key): the entries stored under uid whose
\* key compares equal to the looked-up aware datetime.  A naive datetime or
\* a date never compares equal to an aware datetime.
ModificationsFor(modifications, uid, occurrence) ==
  SelectSeq(modifications,
            LAMBDA m : m.uid = uid /\ m.key = AwareVal(occurrence))

\* ---------------------------------------------------------- materializer

\* Lines 249-266 and 289-305: the output record.  The keys is_recurring,
\* is_modified and is_single that python leaves out are FALSE here, and
\* calendar_name is set by the aggregator.
Event(summary, start, end, duration, timezone, recurring, modified, single) ==
  [summary |-> summary,
   start_utc |-> start,
   end_utc |-> end,
   start_local |-> ToWall(start, timezone),
   end_local |-> ToWall(end, timezone),
   duration_minutes |-> DurationMinutes(duration),
   is_recurring |-> recurring,
   is_modified |-> modified,
   is_single |-> single,
   calendar_name |-> ""]

\* Lines 188-200: the UTC instants of the EXDATE values.  c.exdates holds
\* the datetimes the two branches of the loop read, whether the decoder
\* gave them one by one or as lists.
ExdateInstants(c, cal_timezone) ==
  [n \in 1..Len(c.exdates) |-> ToAware(c.exdates[n], cal_timezone)]

\* Line 215: the occurrence is within the tolerance of an exception date.
IsExcluded(occurrence, exdates) ==
  \E n \in 1..Len(exdates) :
    LET d == occurrence - exdates[n]
    IN  (IF d >= 0 THEN d ELSE 0 - d) < ExdateTolerance

\* Lines 177-205: the steps of a series before its occurrences are generated
\* raise: `.tzinfo` is read off a date (DTSTART, DTEND or an EXDATE), or
\* rrulestr rejects the rule.
SetupRaises(c) ==
  \/ ~HasTzinfoAttr(c.dtstart)
  \/ (c.dtend # NoneVal /\ ~HasTzinfoAttr(c.dtend))
  \/ \E n \in 1..Len(c.exdates) : ~HasTzinfoAttr(c.exdates[n])
  \/ c.rrule = BadRule

\* Lines 218-250: the steps for one occurrence that is not excluded raise:
\* `.tzinfo` is read off a date of the replacing component, or
\* pytz.timezone(timezone) does not know the display zone.
OccurrenceRaises(occurrence, uid, modifications, timezone) ==
  LET found == ModificationsFor(modifications, uid, occurrence)
  IN  \/ /\ found # << >>
         /\ \/ ~HasTzinfoAttr(found[Len(found)].component.dtstart)
            \/ /\ found[Len(found)].component.dtend # NoneVal
               /\ ~HasTzinfoAttr(found[Len(found)].component.dtend)
      \/ timezone \notin KnownZones

\* an end that keeps the wall-clock span of the master in the calendar's
\* zone instead of its elapsed time
OccurrenceEndWallSpan(occurrence, c, cal_timezone) ==
  occurrence
  + (ToWall(LaterPassEnd(c, cal_timezone), cal_timezone)
     - ToWall(ToAware(c.dtstart, cal_timezone), cal_timezone))

\* Lines 238-242: the end of an occurrence that is not replaced: the
\* occurrence plus end_dt - start_dt of the master, a difference of two aware
\* datetimes.
OccurrenceEnd(occurrence, c, cal_timezone) ==
  occurrence
  + (LaterPassEnd(c, cal_timezone) - ToAware(c.dtstart, cal_timezone))

RECURSIVE Materialize(_, _, _, _, _, _, _, _)
\* Lines 213-266: the loop over the generated occurrences.  An exception
\* leaves the loop through the handler of line 268, and the events appended
\* before it stay in the output.
Materialize(occurrences, events, c, uid, modifications, exdates, cal_timezone, timezone) ==
  IF occurrences = << >> THEN events
  ELSE
    LET occurrence == Head(occurrences)
        found == ModificationsFor(modifications, uid, occurrence)
        start_dt == ToAware(c.dtstart, cal_timezone)
        end_dt == LaterPassEnd(c, cal_timezone)
    IN  IF IsExcluded(occurrence, exdates)
          THEN Materialize(Tail(occurrences), events, c, uid, modifications,
                           exdates, cal_timezone, timezone)
        ELSE IF OccurrenceRaises(occurrence, uid, modifications, timezone)
          THEN events
        ELSE IF found # << >>
          THEN
            LET m == found[Len(found)].component
                mod_start == ToAware(m.dtstart, cal_timezone)
                mod_end == LaterPassEnd(m, cal_timezone)
            IN  Materialize(Tail(occurrences),
                  Append(events,
                         Event(c.summary, mod_start, mod_end,
                               mod_end - mod_start, timezone,
                               TRUE, TRUE, FALSE)),
                  c, uid, modifications, exdates, cal_timezone, timezone)
          ELSE Materialize(Tail(occurrences),
                 Append(events,
                        Event(c.summary, occurrence,
                              OccurrenceEnd(occurrence, c, cal_timezone),
                              end_dt - start_dt, timezone,
                              TRUE, FALSE, FALSE)),
                 c, uid, modifications, exdates, cal_timezone, timezone)

\* an expansion that keeps only the occurrences whose own start and end pass
\* the window test of the first loop
ExpandSeriesWindowed(uid, c, modifications, cal_timezone, timezone, window_start, window_end) ==
  IF SetupRaises(c)
    THEN << >>
    ELSE SelectSeq(Materialize(Between(c.rrule,
                                       ToAware(c.dtstart, cal_timezone),
                                       window_start, window_end),
                               << >>, c, uid, modifications,
                               ExdateInstants(c, cal_timezone),
                               cal_timezone, timezone),
                   LAMBDA e : InWindow(e.start_utc, e.end_utc,
                                       window_start, window_end))

\* Lines 172-271: the body of the second loop for one series.
ExpandSeries(uid, c, modifications, cal_timezone, timezone, window_start, window_end) ==
  IF SetupRaises(c)
    THEN << >>
    ELSE Materialize(Between(c.rrule, ToAware(c.dtstart, cal_timezone),
                             window_start, window_end),
                     << >>, c, uid, modifications,
                     ExdateInstants(c, cal_timezone), cal_timezone, timezone)

\* Lines 268-271: an exception of the body reaches the handler of the series.
SeriesRaises(uid, c, modifications, cal_timezone, timezone, window_start, window_end) ==
  \/ SetupRaises(c)
  \/ LET occurrences == Between(c.rrule, ToAware(c.dtstart, cal_timezone),
                                window_start, window_end)
         exdates == ExdateInstants(c, cal_timezone)
     IN  \E n \in 1..Len(occurrences) :
           /\ ~IsExcluded(occurrences[n], exdates)
           /\ OccurrenceRaises(occurrences[n], uid, modifications, timezone)

RECURSIVE SecondPass(_, _, _, _, _, _)
\* Lines 171-271: the second loop, over recurring_events.items().
SecondPass(recurring_events, modifications, cal_timezone, timezone, window_start, window_end) ==
  IF recurring_events = << >> THEN << >>
  ELSE
    ExpandSeries(Head(recurring_events).uid, Head(recurring_events).component,
                 modifications, cal_timezone, timezone,
                 window_start, window_end)
    \o SecondPass(Tail(recurring_events), modifications, cal_timezone,
                  timezone, window_start, window_end)

\* Lines 275-310: the body of the third loop for one non-recurring event.
SingleEvent(c, cal_timezone, timezone) ==
  IF \/ ~HasTzinfoAttr(c.dtstart)
     \/ (c.dtend # NoneVal /\ ~HasTzinfoAttr(c.dtend))
     \/ timezone \notin KnownZones
    THEN << >>
    ELSE
      LET start_dt == ToAware(c.dtstart, cal_timezone)
          end_dt == LaterPassEnd(c, cal_timezone)
      IN  << Event(c.summary, start_dt, end_dt, end_dt - start_dt, timezone,
                   FALSE, FALSE, TRUE) >>

RECURSIVE ThirdPass(_, _, _)
\* Lines 274-310: the third loop, over single_events.
ThirdPass(single_events, cal_timezone, timezone) ==
  IF single_events = << >> THEN << >>
  ELSE SingleEvent(Head(single_events), cal_timezone, timezone)
       \o ThirdPass(Tail(single_events), cal_timezone, timezone)


\* --------------------------------------------------------- parse_calendar

\* Lines 82: cal.get('X-WR-TIMEZONE', timezone); "" stands for a document
\* without the property.
CalTimezone(source, timezone) ==
  IF source.x_wr_timezone = "" THEN timezone ELSE source.x_wr_timezone

OmittedDate == [k |-> "omitted", v |-> 0]

InvalidDate == [k |-> "invalid", v |-> 0]

ValidDate(midnight) == [k |-> "valid", v |-> midnight]

\* Lines 87-95: the start of the window.  now is what datetime.now(tz)
\* returns at the time of the call.
WindowStart(start_date_str, cal_timezone, now) ==
  IF start_date_str.k = "valid"
    THEN Localize(start_date_str.v, cal_timezone)
    ELSE now

\* Line 97
WindowEnd(window_start, days_ahead) == window_start + days_ahead * OneDay

Raised == [raised |-> TRUE, events |-> << >>, window_start |-> 0,
           window_end |-> 0]

Returned(events, window_start, window_end) ==
  [raised |-> FALSE, events |-> events, window_start |-> window_start,
   window_end |-> window_end]

\* Lines 67-79: the file is read and decoded, or the call returns [].
FileReadable(source) == source.file = "ok"

\* Lines 91, 93, 95: pytz.timezone(cal_timezone) raises UnknownTimeZoneError,
\* which no handler of parse_calendar catches.
WindowRaises(cal_timezone) == cal_timezone \notin KnownZones

\* parse_calendar without the handlers of lines 71-79: a file that cannot be
\* read raises
ParseCalendarUnhandled(source, start_date_str, days_ahead, timezone, now) ==
  IF ~FileReadable(source) THEN Raised
  ELSE
    LET cal_timezone == CalTimezone(source, timezone)
    IN  IF WindowRaises(cal_timezone) THEN Raised
        ELSE
          LET window_start == WindowStart(start_date_str, cal_timezone, now)
              window_end == WindowEnd(window_start, days_ahead)
              pass == FirstPass(source.components, EmptyPass, cal_timezone,
                                window_start, window_end)
          IN  Returned(
                SecondPass(pass.recurring_events, pass.modifications,
                           cal_timezone, timezone, window_start, window_end)
                \o ThirdPass(pass.single_events, cal_timezone, timezone),
                window_start, window_end)

\* Lines 55-312: parse_calendar.  The result is the returned list, or the
\* exception that leaves the function; the window is kept beside it.
ParseCalendar(source, start_date_str, days_ahead, timezone, now) ==
  IF ~FileReadable(source) THEN Returned(<< >>, 0, 0)
  ELSE
    LET cal_timezone == CalTimezone(source, timezone)
    IN  IF WindowRaises(cal_timezone) THEN Raised
        ELSE
          LET window_start == WindowStart(start_date_str, cal_timezone, now)
              window_end == WindowEnd(window_start, days_ahead)
              pass == FirstPass(source.components, EmptyPass, cal_timezone,
                                window_start, window_end)
          IN  Returned(
                SecondPass(pass.recurring_events, pass.modifications,
                           cal_timezone, timezone, window_start, window_end)
                \o ThirdPass(pass.single_events, cal_timezone, timezone),
                window_start, window_end)

\* ----------------------------------------------- parse_multiple_calendars

\* Lines 332-333: event['calendar_name'] = calendar_name
Stamp(events, calendar_name) ==
  [n \in 1..Len(events) |-> [events[n] EXCEPT !.calendar_name = calendar_name]]

RECURSIVE InsertByStart(_, _)
\* the place of one event in a list sorted by start_utc: behind every event
\* that does not start later
InsertByStart(sorted, e) ==
  IF sorted = << >> THEN << e >>
  ELSE IF Head(sorted).start_utc <= e.start_utc
    THEN << Head(sorted) >> \o InsertByStart(Tail(sorted), e)
    ELSE << e >> \o sorted

RECURSIVE SortFrom(_, _)
SortFrom(events, sorted) ==
  IF events = << >> THEN sorted
  ELSE SortFrom(Tail(events), InsertByStart(sorted, Head(events)))

RECURSIVE InsertBeforeEqual(_, _)
\* the place of one event in front of the events that start with it
InsertBeforeEqual(sorted, e) ==
  IF sorted = << >> THEN << e >>
  ELSE IF Head(sorted).start_utc < e.start_utc
    THEN << Head(sorted) >> \o InsertBeforeEqual(Tail(sorted), e)
    ELSE << e >> \o sorted

RECURSIVE SortFromUnstable(_, _)
SortFromUnstable(events, sorted) ==
  IF events = << >> THEN sorted
  ELSE SortFromUnstable(Tail(events), InsertBeforeEqual(sorted, Head(events)))

\* a sort that turns the order of equal keys around
SortByStartUnstable(events) == SortFromUnstable(events, << >>)

\* Line 337: all_events.sort(key=lambda event: event['start_utc']); list.sort
\* is stable.
SortByStart(events) == SortFrom(events, << >>)


\* ----------------------------------------- get_events_from_google_calendar

\* an event resource of the API: start and end carry a dateTime (an instant),
\* a date (the wall-clock reading of its midnight), or are missing
Item(summary, start, end, recurring) ==
  [summary |-> summary, start |-> start, end |-> end, recurring |-> recurring]

DateTimeVal(u) == [k |-> "dateTime", v |-> u]

MissingVal == [k |-> "missing", v |-> 0]

\* Lines 226-232: events().list(timeMin, timeMax, singleEvents, orderBy): the
\* service answers with the events of the calendar that end after timeMin
\* and start before timeMax, and with the resources it cannot place.
EventsList(items, time_min, time_max) ==
  SelectSeq(items,
            LAMBDA it : \/ it.start.k = "missing" \/ it.end.k = "missing"
                        \/ (it.end.v > time_min /\ it.start.v < time_max))

\* Lines 242-259: the instant of a start or an end
GoogleInstant(val, timezone) ==
  IF val.k = "dateTime" THEN val.v ELSE Localize(val.v, timezone)

\* Lines 237-285: one event of the answer; a missing key raises, and the
\* handler of line 283 goes on to the next event.
GoogleEvent(it, timezone) ==
  IF it.start.k = "missing" \/ it.end.k = "missing" THEN << >>
  ELSE
    LET start_dt == GoogleInstant(it.start, timezone)
        end_dt == GoogleInstant(it.end, timezone)
    IN  << Event(it.summary, start_dt, end_dt, end_dt - start_dt, timezone,
                 it.recurring, FALSE, FALSE) >>

RECURSIVE GoogleEvents(_, _)
\* Lines 236-285: the loop over the events of one calendar
GoogleEvents(items, timezone) ==
  IF items = << >> THEN << >>
  ELSE GoogleEvent(Head(items), timezone)
       \o GoogleEvents(Tail(items), timezone)

\* Lines 220-288: what one calendar adds to all_events.  An exception of
\* calendars().get or of events().list is caught at line 286 and the loop
\* goes on.
GoogleCalendarEvents(calendar, time_min, time_max, timezone) ==
  IF calendar.fetch # "ok" THEN << >>
  ELSE GoogleEvents(EventsList(calendar.items, time_min, time_max), timezone)

\* Lines 194-205: the start of the window; datetime.now() is the naive
\* reading of the clock of the machine, which runs on UTC.
GoogleWindowStart(start_date_str, timezone, now) ==
  Localize(IF start_date_str.k = "valid" THEN start_date_str.v ELSE now,
           timezone)

\* ------------------------------------------------------------ the inputs

\* the number of sources of a batch
MaxSources == 2

\* how often the clock advances during a behaviour
MaxTicks == 2

\* how often the caller runs the aggregation over the same input
MaxRuns == 2

\* 2025-03-05 00:00, the wall-clock reading of the start date 2025-03-05
StartDay == 4 * OneDay

\* the clock when the first call is made: 2025-03-05 13:30 UTC
FirstNow == StartDay + 13 * OneHour + 30 * SecondsPerMinute

\* what the clock advances by between two steps
TickStep == OneHour

Comp(summary, uid, dtstart, dtend, duration, rrule, recurrence_id, exdates) ==
  [name |-> "VEVENT", summary |-> summary, uid |-> uid, dtstart |-> dtstart,
   dtend |-> dtend, duration |-> duration, rrule |-> rrule,
   recurrence_id |-> recurrence_id, exdates |-> exdates]

\* a component that is no VEVENT
TimezoneComp == [Comp("", "", NoneVal, NoneVal, NoDuration, NoRule, NoneVal,
                      << >>) EXCEPT !.name = "VTIMEZONE"]

Source(file, x_wr_timezone, components) ==
  [file |-> file, x_wr_timezone |-> x_wr_timezone, components |-> components]

File(source, calendar_name) ==
  [source |-> source, calendar_name |-> calendar_name]

\* the arguments of one call of parse_multiple_calendars
Scenario(files, start, days, zone) ==
  [pipeline |-> "ics", calendar_files |-> files, calendar_ids |-> << >>,
   creds |-> TRUE, start_date_str |-> start, days_ahead |-> days,
   timezone |-> zone]

Rule(freq, interval, count) ==
  [freq |-> freq, interval |-> interval, count |-> count]


\* Non-recurring events around the bounds of the one-day window that starts
\* on the start date in a UTC calendar.
StandaloneStarts ==
  {AwareVal(StartDay - OneDay), AwareVal(StartDay - 2 * OneHour),
   AwareVal(StartDay), NaiveVal(StartDay + OneHour),
   AwareVal(StartDay + OneDay - OneHour), AwareVal(StartDay + OneDay),
   AwareVal(StartDay + OneDay + OneHour), DateVal(StartDay)}

StandaloneEnds ==
  {<<NoneVal, NoDuration>>, <<NoneVal, DurationVal(3 * OneHour)>>,
   <<AwareVal(StartDay), NoDuration>>,
   <<AwareVal(StartDay + OneDay), NoDuration>>,
   <<AwareVal(StartDay + OneDay + 2 * OneHour), NoDuration>>,
   <<DateVal(StartDay + OneDay), NoDuration>>}

StandaloneScenarios ==
  {Scenario(<<File(Source("ok", "UTC",
                          <<Comp("visit", "u1", s, e[1], e[2], NoRule,
                                 NoneVal, << >>)>>),
                   "work")>>,
            ValidDate(StartDay), 1, zone) :
     s \in StandaloneStarts, e \in StandaloneEnds,
     zone \in {"UTC", "America/New_York"}}

\* A value of the same python type as val, shifted by d seconds.
Shift(val, d) == [val EXCEPT !.v = @ + d]

\* The components that replace one occurrence of a series.  The
\* RECURRENCE-ID names the third generated instant, as an aware datetime or
\* as the wall-clock reading of the calendar's zone, and the component
\* carries the RRULE of its series or none.
OverridesOf(seed, rule, cal_timezone) ==
  LET slot == ToAware(seed, cal_timezone) + 2 * RulePeriod(rule)
  IN  {<<Comp("moved", "u1", AwareVal(slot + 2 * OneHour),
              AwareVal(slot + 4 * OneHour), NoDuration, r, rid, << >>)>> :
         r \in {rule, NoRule},
         rid \in {AwareVal(slot), NaiveVal(ToWall(slot, cal_timezone))}}
      \cup {<< >>}

SeriesSeeds ==
  {NaiveVal(StartDay + 9 * OneHour), NaiveVal(StartDay),
   AwareVal(StartDay - OneDay + 3 * OneHour), DateVal(StartDay - OneDay)}

SeriesRules ==
  {Rule("DAILY", 1, 0), Rule("DAILY", 2, 3), Rule("SECONDLY", 30, 4),
   BadRule}

\* The documents of one series: the master, with or without an EXDATE at
\* its second generated instant, and with or without a replacing component.
SeriesOf(seed, rule, cal_timezone) ==
  {<<Comp("standup", "u1", seed, NoneVal, NoDuration, rule, NoneVal, ex)>>
     \o ov :
     ex \in {<< >>, <<Shift(seed, RulePeriod(rule))>>},
     ov \in OverridesOf(seed, rule, cal_timezone)}

SeriesDocuments(cal_timezone) ==
  UNION {SeriesOf(seed, rule, cal_timezone) :
           seed \in SeriesSeeds, rule \in SeriesRules}

SeriesSources ==
  UNION {{Source("ok", cz, doc) : doc \in SeriesDocuments(cz)} :
           cz \in {"America/New_York", "UTC"}}

SeriesScenarios ==
  {Scenario(<<File(src, "work")>>, start, 7, zone) :
     src \in SeriesSources,
     start \in {ValidDate(StartDay), OmittedDate},
     zone \in {"America/New_York", "UTC"}}

Timed(summary, uid, start, length) ==
  Comp(summary, uid, AwareVal(start), AwareVal(start + length), NoDuration,
       NoRule, NoneVal, << >>)

\* The sources of a batch: two readable documents whose events start at the
\* same instants, the three kinds of unavailable file, a document whose
\* X-WR-TIMEZONE is no zone, a document without X-WR-TIMEZONE, and a document
\* with a daily series.
BatchSources ==
  {Source("ok", "UTC",
          <<Timed("s1", "a1", StartDay + 10 * OneHour, OneHour),
            Timed("s2", "a2", StartDay + 12 * OneHour, OneHour)>>),
   Source("ok", "UTC",
          <<TimezoneComp,
            Timed("t1", "b1", StartDay + 12 * OneHour, 2 * OneHour),
            Timed("t2", "b2", StartDay + 10 * OneHour, 2 * OneHour),
            Timed("t3", "b3", StartDay + 10 * OneHour, 3 * OneHour)>>),
   Source("missing", "", << >>),
   Source("directory", "", << >>),
   Source("unreadable", "", << >>),
   Source("ok", UnknownZone,
          <<Timed("m1", "c1", StartDay + 11 * OneHour, OneHour)>>),
   Source("ok", "",
          <<Comp("n1", "d1", NaiveVal(StartDay + 11 * OneHour), NoneVal,
                 NoDuration, NoRule, NoneVal, << >>)>>),
   Source("ok", "America/New_York",
          <<Comp("standup", "e1", NaiveVal(StartDay + 9 * OneHour), NoneVal,
                 NoDuration, Rule("DAILY", 1, 0), NoneVal, << >>)>>)}

\* the label the caller gives the n-th source
CalendarName(n) == IF n = 1 THEN "work" ELSE IF n = 2 THEN "home" ELSE "other"

Batches ==
  UNION {{[n \in 1..len |-> File(pick[n], CalendarName(n))] :
            pick \in [1..len -> BatchSources]} :
           len \in 1..MaxSources}

BatchScenarios ==
  {Scenario(files, start, 7, zone) :
     files \in Batches,
     start \in {ValidDate(StartDay), InvalidDate},
     zone \in {"UTC", UnknownZone}}

GoogleCalendar(fetch, summary, items) ==
  [fetch |-> fetch, summary |-> summary, items |-> items]

\* The calendars of a Google batch: two that answer, with events that start
\* together, an all-day event and a resource without start, and two whose
\* fetch fails.
GoogleCalendars ==
  {GoogleCalendar("ok", "Primary",
     <<Item("allday", [k |-> "date", v |-> StartDay],
            [k |-> "date", v |-> StartDay + OneDay], FALSE),
       Item("g1", DateTimeVal(StartDay + 10 * OneHour),
            DateTimeVal(StartDay + 11 * OneHour), FALSE),
       Item("g2", DateTimeVal(StartDay + 14 * OneHour),
            DateTimeVal(StartDay + 15 * OneHour + 90), TRUE)>>),
   GoogleCalendar("ok", "Team",
     <<Item("h1", DateTimeVal(StartDay + 10 * OneHour),
            DateTimeVal(StartDay + 12 * OneHour), FALSE),
       Item("broken", MissingVal, MissingVal, FALSE),
       Item("h2", DateTimeVal(StartDay + 10 * OneHour),
            DateTimeVal(StartDay + 13 * OneHour), FALSE)>>),
   GoogleCalendar("get fails", "", << >>),
   GoogleCalendar("list fails", "Shared", << >>)}

GoogleBatches ==
  UNION {[1..len -> GoogleCalendars] : len \in 1..MaxSources}

\* the arguments of one call of get_events_from_google_calendar
GoogleScenarios ==
  {[pipeline |-> "google", calendar_files |-> << >>, calendar_ids |-> ids,
    creds |-> creds_ok, start_date_str |-> start, days_ahead |-> 1,
    timezone |-> zone] :
     ids \in GoogleBatches,
     creds_ok \in BOOLEAN,
     start \in {ValidDate(StartDay), OmittedDate},
     zone \in {"UTC", "America/New_York", UnknownZone}}

\* the first instant of the series of the documents below: 2025-03-05 14:00
\* UTC, 09:00 in New York
DetailSeed == StartDay + 14 * OneHour

\* the generated instant that the EXDATEs and RECURRENCE-IDs below aim at:
\* the third of a daily series from DetailSeed
DetailSlot == DetailSeed + 2 * OneDay

\* a daily master from DetailSeed
Master(summary, uid, dtend, duration, exdates) ==
  Comp(summary, uid, AwareVal(DetailSeed), dtend, duration,
       Rule("DAILY", 1, 0), NoneVal, exdates)

\* a component that carries the RRULE of its series and a RECURRENCE-ID, and
\* moves the occurrence by two hours
Moved(uid, dtstart, dtend, duration, recurrence_id) ==
  Comp("moved", uid, dtstart, dtend, duration, Rule("DAILY", 1, 0),
       recurrence_id, << >>)

\* a VEVENT without DTSTART
NoStart(rrule, recurrence_id) ==
  Comp("nostart", "x1", NoneVal, AwareVal(StartDay + 11 * OneHour),
       NoDuration, rrule, recurrence_id, << >>)

\* Documents with a component without DTSTART among events and series.
MalformedDocuments ==
  {<<TimezoneComp, NoStart(r, rid),
     Timed("after", "x2", StartDay + 10 * OneHour, OneHour)>> \o tail :
     r \in {NoRule, Rule("DAILY", 1, 0)},
     rid \in {NoneVal, AwareVal(DetailSlot)},
     tail \in {<< >>, <<Master("standup", "u1", NoneVal, NoDuration, << >>)>>}}

\* Documents with a series whose processing fails beside a series and an
\* event that are in order: the rule is rejected, the DTSTART or an EXDATE
\* of the master is a date, or a replacing component has a date for DTSTART
\* or DTEND.
FailingDocuments ==
  {<<Timed("visit", "v1", StartDay + 10 * OneHour, OneHour), bad,
     Master("standup", "u1", NoneVal, NoDuration, << >>)>> :
     bad \in {Comp("broken", "f1", AwareVal(DetailSeed), NoneVal,
                   NoDuration, BadRule, NoneVal, << >>),
              Comp("broken", "f1", DateVal(StartDay), NoneVal, NoDuration,
                   Rule("DAILY", 1, 0), NoneVal, << >>),
              Comp("broken", "f1", AwareVal(DetailSeed), NoneVal,
                   NoDuration, Rule("DAILY", 1, 0), NoneVal,
                   <<DateVal(StartDay + 2 * OneDay)>>)}}
  \cup
  {<<Timed("visit", "v1", StartDay + 10 * OneHour, OneHour),
     Master("broken", "f1", NoneVal, NoDuration, << >>),
     Moved("f1", s, e, NoDuration, AwareVal(DetailSlot)),
     Master("standup", "u1", NoneVal, NoDuration, << >>)>> :
     s \in {DateVal(StartDay + 2 * OneDay),
            AwareVal(DetailSlot + 2 * OneHour)},
     e \in {NoneVal, DateVal(StartDay + 3 * OneDay)}}

\* Documents whose components give their length by DTEND, by DURATION or
\* not at all, with a DTEND before the DTSTART among them, and a series
\* whose master spans the hour in which New York springs forward.
LengthEnds ==
  {<<NoneVal, NoDuration>>, <<NoneVal, DurationVal(2 * OneHour)>>,
   <<AwareVal(DetailSeed + 90 * SecondsPerMinute), NoDuration>>,
   <<AwareVal(DetailSeed - OneHour), NoDuration>>}

LengthDocuments ==
  {<<Master("standup", "u1", e[1], e[2], << >>)>> : e \in LengthEnds}
  \cup
  {<<Master("standup", "u1", NoneVal, NoDuration, << >>),
     Moved("u1", AwareVal(DetailSlot + 2 * OneHour), NoneVal,
           DurationVal(d), AwareVal(DetailSlot))>> :
     d \in {2 * OneHour, 90}}
  \cup
  {<<Comp("night", "n1", NaiveVal(StartDay + 4 * OneDay + OneHour
                                    + 30 * SecondsPerMinute),
          NaiveVal(StartDay + 4 * OneDay + 3 * OneHour
                     + 30 * SecondsPerMinute),
          NoDuration, Rule("DAILY", 1, 0), NoneVal, << >>)>>}

\* Documents whose EXDATE or RECURRENCE-ID lies beside a generated instant.
ToleranceOffsets == {0 - 61, 0 - 60, 0 - 59, 0 - 1, 1, 59, 60, 61}

ToleranceDocuments ==
  {<<Master("standup", "u1", NoneVal, NoDuration,
            <<AwareVal(DetailSlot + d)>>)>> : d \in ToleranceOffsets}
  \cup
  {<<Master("standup", "u1", NoneVal, NoDuration, << >>),
     Moved("u1", AwareVal(DetailSlot + 2 * OneHour),
           AwareVal(DetailSlot + 3 * OneHour), NoDuration,
           AwareVal(DetailSlot + d))>> : d \in ToleranceOffsets \cup {0}}

\* Documents whose events and series last a number of seconds that is no
\* whole number of minutes, forwards and, with a DTEND before the DTSTART,
\* backwards.
FractionLengths == {90, 0 - 90, 59, 0 - 1}

FractionDocuments ==
  {<<Timed("brief", "b1", DetailSeed, d)>> : d \in FractionLengths}
  \cup
  {<<Master("standup", "u1", AwareVal(DetailSeed + d), NoDuration, << >>)>> :
     d \in FractionLengths}

\* Documents whose replacing component moves the occurrence of DetailSlot to
\* a time that lies before the window, after it, or inside it.
MovedStarts ==
  {StartDay - 2 * OneDay, DetailSlot + 2 * OneHour, StartDay + 10 * OneDay}

MovedDocuments ==
  {<<Master("standup", "u1", NoneVal, NoDuration, << >>),
     Moved("u1", AwareVal(s), AwareVal(s + OneHour), NoDuration,
           AwareVal(DetailSlot))>> : s \in MovedStarts}

\* Documents with two series under one uid, or both without a UID (the
\* decoder gives them the uid ""), with or without a series of another uid
\* between them.
DuplicateDocuments ==
  {<<Master("first", u, NoneVal, NoDuration, << >>)>> \o between
     \o <<Master("second", u, AwareVal(DetailSeed + 2 * OneHour),
                 NoDuration, << >>)>> :
     u \in {"u1", ""},
     between \in {<< >>,
                  <<Master("other", "k1", NoneVal, NoDuration, << >>)>>}}

DetailDocuments ==
  MalformedDocuments \cup FailingDocuments \cup LengthDocuments
  \cup ToleranceDocuments \cup FractionDocuments \cup MovedDocuments
  \cup DuplicateDocuments

DetailScenarios ==
  {Scenario(<<File(Source("ok", cz, doc), "work")>>, ValidDate(StartDay), 7,
            zone) :
     doc \in DetailDocuments,
     cz \in {"America/New_York", "UTC"},
     zone \in {"America/New_York", "UTC"}}

\* ------------------------------------------------- the loop of main.py

\* the most entries feedback_history gets
MaxFeedback == 2

\* the most turns the loop takes
MaxIterations == 3

\* a key of a dict, or a line of a text, that is not there, is there with a
\* value, or is there with a value that cannot be read
Absent == [k |-> "absent", v |-> 0]

Present(v) == [k |-> "present", v |-> v]

Garbled == [k |-> "garbled", v |-> 0]

\* python's None, for a response and for a parsed response
None ==
  [k |-> "None", start_time |-> Absent, duration |-> Absent,
   explanation |-> Absent]

\* the response "": get_llm_suggestion gave a text, and it is empty
EmptyText ==
  [k |-> "empty", start_time |-> Absent, duration |-> Absent,
   explanation |-> Absent]

\* a response with the lines "Date and Time:", "Duration:" and
\* "Explanation:" of the section "Suggested schedule", each there or not
Text(date_and_time, duration, explanation) ==
  [k |-> "text", start_time |-> date_and_time, duration |-> duration,
   explanation |-> explanation]

\* the suggested start: 2025-03-05 09:00
SuggestedStart == StartDay + 9 * OneHour

\* llm_scheduler.py lines 48-151: what get_llm_suggestion can return: None
\* on any error, or the text of the model.
LlmResponses ==
  {None, EmptyText}
  \cup {Text(st, du, ex) :
          st \in {Absent, Garbled, Present(SuggestedStart)},
          du \in {Absent, Present(1), Present(2)},
          ex \in {Absent, Present(0)}}

\* llm_scheduler.py lines 188-200: a line is read into its key; a value
\* that strptime or float rejects leaves the key out.
ParsedLine(line) == IF line.k = "present" THEN line ELSE Absent

\* llm_scheduler.py lines 153-233: None for an empty response, otherwise
\* the dict of the keys that could be read.
parse_llm_response(response) ==
  IF response.k = "empty" THEN None
  ELSE [k |-> "dict",
        start_time |-> ParsedLine(response.start_time),
        duration |-> ParsedLine(response.duration),
        explanation |-> ParsedLine(response.explanation)]

\* main.py line 121: `if parsed_response:`; None and {} are false.
Truthy(parsed) ==
  /\ parsed.k = "dict"
  /\ \E key \in {"start_time", "duration", "explanation"} :
       parsed[key] # Absent

\* main.py lines 136-150: parsed_response['start_time'] and
\* parsed_response['duration'] raise KeyError when the key is missing, and
\* nothing in main() catches it.
DisplayRaises(parsed) ==
  parsed.start_time = Absent \/ parsed.duration = Absent

\* google_calendar_api.py lines 133-171: without credentials the function
\* raises; a missing key of event_data or an error of the insert is caught
\* and gives None; otherwise the created event.
create_event_from_llm_suggestion(event_data, creds_now, inserted) ==
  IF ~creds_now THEN "raises"
  ELSE IF event_data.explanation = Absent \/ ~inserted THEN "None"
  ELSE "event"

\* a loop that asks for another suggestion when the event was not created
AfterCreateRetry(created_event) ==
  IF created_event = "None" THEN "suggest" ELSE "done"

\* main.py lines 189-194: the message depends on created_event, the break of
\* line 194 does not.
AfterCreate(created_event) == "done"

\* main.py lines 200, 206, 212: the entry appended to feedback_history, the
\* f-string as the pair of its prefix and the answer.
FeedbackEntry(answer, feedback) ==
  <<IF answer = "2" THEN "Requested different time: "
    ELSE IF answer = "3" THEN "Requested different duration: "
    ELSE "Added constraints: ",
    feedback>>

\* what the user answers to the two prompts of the loop
Choices == {"1", "2", "3", "4", "5", "", "6"}

FeedbackTexts == {"morning", "30 minutes"}

\* ------------------------------------------------------ the state machine

VARIABLES
  pipeline,        \* "ics": parse_multiple_calendars runs, "google":
                   \* get_events_from_google_calendar runs
  calendar_files,  \* the argument calendar_files
  calendar_ids,    \* the argument calendar_ids, with what the service holds
  creds,           \* get_calendar_credentials() gives credentials
  start_date_str,  \* the argument start_date_str
  days_ahead,      \* the argument days_ahead
  timezone,        \* the argument timezone, the display zone
  clock,           \* what datetime.now() returns
  time_min,        \* window_start of get_events_from_google_calendar
  time_max,        \* window_end of get_events_from_google_calendar
  idx,             \* the position of the loop over the sources
  all_events,      \* the list all_events
  status,          \* "starting", "running", "returned" or "raised"
  returned,        \* what each source of this run gave
  run,             \* the number of the run
  prev_events,     \* the list the previous run returned
  pc,              \* where main() stands: "fetch", "suggest", "choose",
                   \* "done", "raised"; "none" when the functions are
                   \* called on their own
  raw_llm_response,  \* what get_llm_suggestion returned in this turn
  parsed_response,   \* what parse_llm_response made of it
  choice,          \* the last answer to "Enter your choice (1-5)"
  feedback_history,  \* the list feedback_history
  created,         \* the calls of create_event_from_llm_suggestion
  iteration        \* the number of turns of the loop so far

vars == <<pipeline, calendar_files, calendar_ids, creds, start_date_str,
          days_ahead, timezone, clock, time_min, time_max, idx, all_events,
          status, returned, run, prev_events, pc, raw_llm_response,
          parsed_response, choice, feedback_history, created, iteration>>

\* the variables of the loop of main()
cli == <<pc, raw_llm_response, parsed_response, choice, feedback_history,
         created, iteration>>

inputs == <<pipeline, calendar_files, calendar_ids, creds, start_date_str,
            days_ahead, timezone>>

Scenarios ==
  StandaloneScenarios \cup SeriesScenarios \cup BatchScenarios
  \cup GoogleScenarios \cup DetailScenarios

\* the variables of the loop before main() reaches it
LoopNotEntered(at) ==
  /\ pc = at
  /\ raw_llm_response = None
  /\ parsed_response = None
  /\ choice = ""
  /\ feedback_history = << >>
  /\ created = << >>
  /\ iteration = 0

\* the state in which a call begins
FirstStatus(p) == IF p = "google" THEN "starting" ELSE "running"

Init ==
  /\ \E sc \in Scenarios :
       /\ pipeline = sc.pipeline
       /\ calendar_files = sc.calendar_files
       /\ calendar_ids = sc.calendar_ids
       /\ creds = sc.creds
       /\ start_date_str = sc.start_date_str
       /\ days_ahead = sc.days_ahead
       /\ timezone = sc.timezone
  /\ clock = FirstNow
  /\ time_min = 0
  /\ time_max = 0
  /\ idx = 1
  /\ all_events = << >>
  /\ status = FirstStatus(pipeline)
  /\ returned = << >>
  /\ run = 1
  /\ prev_events = << >>
  /\ LoopNotEntered("none")

\* Time passes between two steps of the program.
Tick ==
  /\ clock < FirstNow + MaxTicks * TickStep
  /\ clock' = clock + TickStep
  /\ UNCHANGED <<inputs, cli, time_min, time_max, idx, all_events, status,
                 returned, run, prev_events>>

\* calendar_parser.py lines 329-334: one turn of the loop.  An exception of
\* parse_calendar leaves parse_multiple_calendars, which has no handler.
ParseOne ==
  /\ pipeline = "ics"
  /\ status = "running"
  /\ idx <= Len(calendar_files)
  /\ LET r == ParseCalendar(calendar_files[idx].source, start_date_str,
                            days_ahead, timezone, clock)
     IN  /\ returned' = Append(returned, r)
         /\ IF r.raised
              THEN /\ status' = "raised"
                   /\ UNCHANGED <<idx, all_events>>
              ELSE /\ all_events' =
                        all_events
                        \o Stamp(r.events, calendar_files[idx].calendar_name)
                   /\ idx' = idx + 1
                   /\ UNCHANGED status
  /\ UNCHANGED <<inputs, cli, clock, time_min, time_max, run, prev_events>>

\* calendar_parser.py lines 337-338: the sort and the return.
SortAndReturn ==
  /\ pipeline = "ics"
  /\ status = "running"
  /\ idx > Len(calendar_files)
  /\ all_events' = SortByStart(all_events)
  /\ status' = "returned"
  /\ UNCHANGED <<inputs, cli, clock, time_min, time_max, idx, returned, run,
                 prev_events>>

\* google_calendar_api.py lines 186-216: the credentials and the window.
\* Without credentials the function raises; an unknown display zone raises
\* inside the try, and the handler of line 297 returns [].
GoogleBegin ==
  /\ pipeline = "google"
  /\ status = "starting"
  /\ IF ~creds
       THEN /\ status' = "raised"
            /\ UNCHANGED <<time_min, time_max, all_events>>
       ELSE IF timezone \notin KnownZones
         THEN /\ status' = "returned"
              /\ all_events' = << >>
              /\ UNCHANGED <<time_min, time_max>>
         ELSE /\ status' = "running"
              /\ time_min' = GoogleWindowStart(start_date_str, timezone, clock)
              /\ time_max' = WindowEnd(time_min', days_ahead)
              /\ UNCHANGED all_events
  /\ UNCHANGED <<inputs, cli, clock, idx, returned, run, prev_events>>

\* google_calendar_api.py lines 219-288: one turn of the loop over
\* calendar_ids.
GoogleFetchOne ==
  /\ pipeline = "google"
  /\ status = "running"
  /\ idx <= Len(calendar_ids)
  /\ LET events == GoogleCalendarEvents(calendar_ids[idx], time_min,
                                        time_max, timezone)
     IN  /\ returned' = Append(returned, Returned(events, time_min, time_max))
         /\ all_events' =
              all_events \o Stamp(events, calendar_ids[idx].summary)
  /\ idx' = idx + 1
  /\ UNCHANGED <<inputs, cli, clock, time_min, time_max, status, run,
                 prev_events>>

\* google_calendar_api.py lines 290-292: the sort and the return.
GoogleSortAndReturn ==
  /\ pipeline = "google"
  /\ status = "running"
  /\ idx > Len(calendar_ids)
  /\ all_events' = SortByStart(all_events)
  /\ status' = "returned"
  /\ UNCHANGED <<inputs, cli, clock, time_min, time_max, idx, returned, run,
                 prev_events>>

\* The caller runs the same call again with the same arguments.
Call ==
  /\ status = "returned"
  /\ run < MaxRuns
  /\ run' = run + 1
  /\ prev_events' = all_events
  /\ idx' = 1
  /\ all_events' = << >>
  /\ returned' = << >>
  /\ status' = FirstStatus(pipeline)
  /\ time_min' = 0
  /\ time_max' = 0
  /\ UNCHANGED <<inputs, cli, clock>>

Next ==
  \/ Tick
  \/ ParseOne
  \/ SortAndReturn
  \/ GoogleBegin
  \/ GoogleFetchOne
  \/ GoogleSortAndReturn
  \/ Call

Spec == Init /\ [][Next]_vars

\* --------------------------------------------------------------- main()

\* the variables of the calendar pipelines
fetched == <<inputs, clock, time_min, time_max, idx, all_events, status,
             returned, run, prev_events>>

\* main.py lines 18-77: main() calls get_events_from_google_calendar with a
\* start date it has validated, a zone pytz knows, and the one calendar
\* 'primary'.
MainScenarios ==
  {sc \in GoogleScenarios :
     /\ Len(sc.calendar_ids) = 1
     /\ sc.start_date_str = ValidDate(StartDay)
     /\ sc.timezone \in KnownZones}

MainInit ==
  /\ \E sc \in MainScenarios :
       /\ pipeline = sc.pipeline
       /\ calendar_files = sc.calendar_files
       /\ calendar_ids = sc.calendar_ids
       /\ creds = sc.creds
       /\ start_date_str = sc.start_date_str
       /\ days_ahead = sc.days_ahead
       /\ timezone = sc.timezone
  /\ clock = FirstNow
  /\ time_min = 0
  /\ time_max = 0
  /\ idx = 1
  /\ all_events = << >>
  /\ status = FirstStatus(pipeline)
  /\ returned = << >>
  /\ run = 1
  /\ prev_events = << >>
  /\ LoopNotEntered("fetch")

\* main.py lines 89-93: get_events_from_google_calendar raised; main()
\* prints the error and returns.
MainFetchFailed ==
  /\ pc = "fetch"
  /\ status = "raised"
  /\ pc' = "exit"
  /\ UNCHANGED <<fetched, raw_llm_response, parsed_response, choice,
                 feedback_history, created, iteration>>

\* main.py lines 95-108: the events are there; the request and the title
\* are read, and feedback_history = [].
MainFetched ==
  /\ pc = "fetch"
  /\ status = "returned"
  /\ feedback_history' = << >>
  /\ pc' = "suggest"
  /\ UNCHANGED <<fetched, raw_llm_response, parsed_response, choice,
                 created, iteration>>

\* main.py lines 109-179 and 217-229: a turn of the loop up to the prompt.
\* get_llm_suggestion is called with feedback_history; None ends the loop,
\* and so does a response that parses to None or {}; a parsed response
\* without start_time or duration raises out of main().
Suggest ==
  /\ pc = "suggest"
  /\ iteration < MaxIterations
  /\ iteration' = iteration + 1
  /\ \E response \in LlmResponses :
       /\ raw_llm_response' = response
       /\ IF response = None
            THEN /\ pc' = "done"
                 /\ UNCHANGED parsed_response
            ELSE /\ parsed_response' = parse_llm_response(response)
                 /\ pc' = IF ~Truthy(parsed_response') THEN "done"
                          ELSE IF DisplayRaises(parsed_response')
                            THEN "raised"
                          ELSE "choose"
  /\ UNCHANGED <<fetched, choice, feedback_history, created>>

\* main.py lines 179-216: the answer to the prompt and its branch.
Choose ==
  /\ pc = "choose"
  /\ \E answer \in Choices :
       /\ choice' = answer
       /\ IF answer = "1"
            THEN \E creds_now \in BOOLEAN, inserted \in BOOLEAN :
                   LET created_event ==
                         create_event_from_llm_suggestion(parsed_response,
                                                          creds_now, inserted)
                   IN  /\ created' =
                            Append(created,
                                   [event_data |-> parsed_response,
                                    iteration |-> iteration,
                                    created_event |-> created_event])
                       /\ pc' = IF created_event = "raises" THEN "raised"
                                ELSE AfterCreate(created_event)
                       /\ UNCHANGED feedback_history
          ELSE IF answer \in {"2", "3", "4"}
            THEN /\ Len(feedback_history) < MaxFeedback
                 /\ \E feedback \in FeedbackTexts :
                      feedback_history' =
                        Append(feedback_history,
                               FeedbackEntry(answer, feedback))
                 /\ pc' = "suggest"
                 /\ UNCHANGED created
          ELSE IF answer = "5"
            THEN /\ pc' = "done"
                 /\ UNCHANGED <<feedback_history, created>>
          ELSE /\ pc' = "suggest"
               /\ UNCHANGED <<feedback_history, created>>
  /\ UNCHANGED <<fetched, raw_llm_response, parsed_response, iteration>>

MainNext ==
  \/ GoogleBegin
  \/ GoogleFetchOne
  \/ GoogleSortAndReturn
  \/ MainFetchFailed
  \/ MainFetched
  \/ Suggest
  \/ Choose

MainSpec == MainInit /\ [][MainNext]_vars

\* ------------------------------------------------- notions of the claims

\* the sources this run has parsed
Parsed == 1..Len(returned)

SourceAt(i) == calendar_files[i].source

\* the label the occurrences of the i-th source get
NameAt(i) ==
  IF pipeline = "ics" THEN calendar_files[i].calendar_name
  ELSE calendar_ids[i].summary

\* the i-th source was read, no exception left its parse, and the display
\* zone is a zone of the database
CleanParse(i) ==
  /\ pipeline = "ics"
  /\ FileReadable(SourceAt(i))
  /\ ~returned[i].raised
  /\ timezone \in KnownZones

\* the three variants of a component that has a DTSTART
IsMaster(c) ==
  c.name = "VEVENT" /\ c.dtstart # NoneVal /\ c.rrule # NoRule
  /\ c.recurrence_id = NoneVal

IsOverride(c) ==
  c.name = "VEVENT" /\ c.dtstart # NoneVal /\ c.recurrence_id # NoneVal

IsStandalone(c) ==
  c.name = "VEVENT" /\ c.dtstart # NoneVal /\ c.rrule = NoRule
  /\ c.recurrence_id = NoneVal

\* DTSTART and DTEND are datetimes, not dates
IsTimed(c) ==
  ~IsDateOnly(c.dtstart) /\ (c.dtend # NoneVal => ~IsDateOnly(c.dtend))

ComponentsOf(i) ==
  {SourceAt(i).components[n] : n \in 1..Len(SourceAt(i).components)}

\* the output occurrences of the i-th source that carry a summary
OccurrencesOf(i, summary) ==
  SelectSeq(returned[i].events, LAMBDA e : e.summary = summary)

\* the output occurrences of the i-th source that come from a series
RecurringOf(i) ==
  SelectSeq(returned[i].events, LAMBDA e : e.is_recurring)

\* the instants the rule of a master generates in the window of the i-th parse
InstantsOf(i, c) ==
  Between(c.rrule, ToAware(c.dtstart, CalTimezone(SourceAt(i), timezone)),
          returned[i].window_start, returned[i].window_end)

InSeq(x, seq) == \E n \in 1..Len(seq) : seq[n] = x

\* seq without its k-th element
RemoveAt(seq, k) ==
  [n \in 1..(Len(seq) - 1) |-> IF n < k THEN seq[n] ELSE seq[n + 1]]

\* ------------------------------------------------------------------- C1

\* C1: a non-recurring event with a DTSTART is output if and only if its
\* start lies in the closed window [window_start, window_end], or its end
\* (the end the output occurrence carries) lies there, or it starts at or
\* before window_start and ends at or after window_end.  Stated for the
\* events whose end does not come from a DURATION, so that the end of the
\* window test and the end of the output are the same value.
C1_StandaloneOutputIffOverlapsClosedWindow ==
  \A i \in Parsed :
    CleanParse(i) =>
      \A c \in ComponentsOf(i) :
        (/\ IsStandalone(c) /\ IsTimed(c)
         /\ (c.dtend = NoneVal => c.duration = NoDuration)) =>
          LET cz == CalTimezone(SourceAt(i), timezone)
              s == ToAware(c.dtstart, cz)
              e == LaterPassEnd(c, cz)
              ws == returned[i].window_start
              we == returned[i].window_end
          IN  (OccurrencesOf(i, c.summary) # << >>)
              <=> \/ (ws <= s /\ s <= we)
                  \/ (ws <= e /\ e <= we)
                  \/ (s <= ws /\ e >= we)

\* ------------------------------------------------------------------- C2

\* a component replaces the occurrence of master c at a generated instant of
\* the window and moves it
Replaces(i, o, c) ==
  LET cz == CalTimezone(SourceAt(i), timezone)
      slot == ToAware(o.recurrence_id, cz)
  IN  /\ IsOverride(o) /\ IsTimed(o)
      /\ o.uid = c.uid
      /\ InSeq(slot, InstantsOf(i, c))
      /\ ToAware(o.dtstart, cz) # slot

\* C2: when a component with the uid of a series has a RECURRENCE-ID equal
\* to a generated instant of the window and another start and end, the one
\* occurrence of that slot has the start, the end and the duration of that
\* component and is_modified = TRUE, and every other occurrence of the
\* series has is_modified = FALSE.
C2_OverrideReplacesItsSlot ==
  \A i \in Parsed :
    CleanParse(i) =>
      \A c \in ComponentsOf(i), o \in ComponentsOf(i) :
        (/\ IsMaster(c) /\ IsTimed(c) /\ c.rrule # BadRule
         /\ c.exdates = << >>
         /\ Replaces(i, o, c)) =>
          LET cz == CalTimezone(SourceAt(i), timezone)
              slot == ToAware(o.recurrence_id, cz)
              instants == InstantsOf(i, c)
              out == RecurringOf(i)
              mod_start == ToAware(o.dtstart, cz)
              mod_end == LaterPassEnd(o, cz)
          IN  /\ Len(out) = Len(instants)
              /\ \A n \in 1..Len(out) :
                   IF instants[n] = slot
                     THEN /\ out[n].is_modified
                          /\ out[n].start_utc = mod_start
                          /\ out[n].end_utc = mod_end
                          /\ out[n].duration_minutes
                               = DurationMinutes(mod_end - mod_start)
                     ELSE ~out[n].is_modified

\* ------------------------------------------------------------------- C3

\* the document of the i-th source with the EXDATEs of master c taken out
WithoutExdates(i, c) ==
  [SourceAt(i) EXCEPT !.components =
     [n \in 1..Len(@) |-> IF @[n] = c THEN [c EXCEPT !.exdates = << >>]
                                       ELSE @[n]]]

\* C3: one EXDATE equal to a generated instant of a series removes exactly
\* one occurrence: the output is the output of the same document without the
\* EXDATE, less one occurrence, whatever the frequency of the series.
C3_ExdateRemovesExactlyOne ==
  \A i \in Parsed :
    CleanParse(i) =>
      \A c \in ComponentsOf(i) :
        (/\ IsMaster(c) /\ IsTimed(c) /\ c.rrule # BadRule
         /\ Len(c.exdates) = 1
         /\ ~IsDateOnly(c.exdates[1])
         /\ InSeq(ToAware(c.exdates[1], CalTimezone(SourceAt(i), timezone)),
                  InstantsOf(i, c))) =>
          LET base == ParseCalendar(WithoutExdates(i, c), start_date_str,
                                    days_ahead, timezone,
                                    returned[i].window_start).events
          IN  \E k \in 1..Len(base) :
                returned[i].events = RemoveAt(base, k)

\* ------------------------------------------------------------------- C4

\* 2025-03-09 09:00 as a wall-clock reading
NinthAtNine == StartDay + 4 * OneDay + 9 * OneHour

\* the daily series of the claim: first occurrence 2025-03-05 09:00 local
IsDstSeries(c) ==
  /\ IsMaster(c)
  /\ c.rrule = Rule("DAILY", 1, 0)
  /\ c.dtstart = NaiveVal(StartDay + 9 * OneHour)
  /\ c.exdates = << >>

\* C4: a daily series that starts on 2025-03-05 at 09:00 local time of a
\* calendar zone that springs forward on 2025-03-09, in a window that holds
\* 2025-03-09, has an occurrence at 09:00 local time of 2025-03-09 whose
\* elapsed length is the master's.
C4_DailyKeepsLocalHourAcrossDst ==
  \A i \in Parsed :
    (/\ CleanParse(i)
     /\ SourceAt(i).x_wr_timezone = "America/New_York"
     /\ start_date_str = ValidDate(StartDay)
     /\ days_ahead = 7) =>
      \A c \in ComponentsOf(i) :
        (IsDstSeries(c) /\ Len(SourceAt(i).components) = 1) =>
          \E n \in 1..Len(returned[i].events) :
            LET e == returned[i].events[n]
            IN  /\ ToWall(e.start_utc, "America/New_York") = NinthAtNine
                /\ e.end_utc - e.start_utc = OneHour

\* ------------------------------------------------------------------- C5

\* a daily series without COUNT, EXDATE or replacing component that started
\* at or before the start of a seven-day window
IsPlainDaily(i, c) ==
  /\ IsMaster(c) /\ IsTimed(c)
  /\ c.rrule = Rule("DAILY", 1, 0)
  /\ c.exdates = << >>
  /\ \A o \in ComponentsOf(i) :
       /\ (IsOverride(o) => o.uid # c.uid)
       /\ ((IsMaster(o) /\ o # c) => o.uid # c.uid)
       /\ (o # c => o.summary # c.summary)
  /\ days_ahead = 7
  /\ ToAware(c.dtstart, CalTimezone(SourceAt(i), timezone))
       <= returned[i].window_start

\* the first occurrence on or after the window start is the window start
OnBound(i, c) ==
  (returned[i].window_start
     - ToAware(c.dtstart, CalTimezone(SourceAt(i), timezone))) % OneDay = 0

\* C5: such a series yields 7 occurrences, or 8 when an occurrence falls on
\* a bound of the window, and consecutive occurrences are 24 hours of
\* elapsed time apart.
C5_DailySevenOrEight ==
  \A i \in Parsed :
    CleanParse(i) =>
      \A c \in ComponentsOf(i) :
        IsPlainDaily(i, c) =>
          LET out == OccurrencesOf(i, c.summary)
          IN  /\ Len(out) = (IF OnBound(i, c) THEN 8 ELSE 7)
              /\ \A n \in 1..(Len(out) - 1) :
                   out[n + 1].start_utc - out[n].start_utc = OneDay

C5_Witness ==
  \E i \in Parsed :
    /\ CleanParse(i)
    /\ \E c \in ComponentsOf(i) :
         /\ IsPlainDaily(i, c) /\ OnBound(i, c)
         /\ Len(OccurrencesOf(i, c.summary)) = 8
    /\ SourceAt(i).x_wr_timezone = "America/New_York"

\* ------------------------------------------------------------------- C6

RECURSIVE Gathered(_)
\* what the first n sources of this run returned, stamped, in the order of
\* calendar_files
Gathered(n) ==
  IF n = 0 THEN << >>
  ELSE Gathered(n - 1)
       \o Stamp(returned[n].events, NameAt(n))

\* the events of a list that start at an instant, in the order of the list
StartingAt(events, instant) ==
  SelectSeq(events, LAMBDA e : e.start_utc = instant)

StartsOf(events) == {events[n].start_utc : n \in 1..Len(events)}

\* C6: the returned list is non-decreasing in start_utc, and the occurrences
\* that start at the same instant stand in the order of their sources in
\* calendar_files and, within one source, in the order its parse gave them.
C6_SortedStableBySource ==
  (pipeline = "ics" /\ status = "returned") =>
    /\ \A n \in 1..(Len(all_events) - 1) :
         all_events[n].start_utc <= all_events[n + 1].start_utc
    /\ Len(all_events) = Len(Gathered(Len(returned)))
    /\ \A t \in StartsOf(Gathered(Len(returned))) :
         StartingAt(all_events, t) = StartingAt(Gathered(Len(returned)), t)

\* two sources gave occurrences that start together, one of them two, and
\* the concatenation was not in order
C6_Witness ==
  /\ pipeline = "ics"
  /\ status = "returned"
  /\ Len(returned) = 2
  /\ \E t \in StartsOf(all_events) :
       /\ \E a, b \in 1..Len(all_events) :
            /\ a < b
            /\ all_events[a].start_utc = t /\ all_events[b].start_utc = t
            /\ all_events[a].calendar_name # all_events[b].calendar_name
       /\ \E a, b \in 1..Len(all_events) :
            /\ a < b
            /\ all_events[a].start_utc = t /\ all_events[b].start_utc = t
            /\ all_events[a].calendar_name = all_events[b].calendar_name
  /\ all_events # Gathered(Len(returned))

\* ------------------------------------------------------------------- C7

\* C7: two runs over the same documents, window arguments and display zone
\* return the same list; the clock is not read inside the pipeline.
C7_TwoRunsAgree ==
  (status = "returned" /\ run > 1) => all_events = prev_events

\* ------------------------------------------------------------------- C8

\* the i-th source is unavailable: its file is missing, is a directory or
\* cannot be decoded, or the fetch of the calendar fails
Unavailable(i) ==
  IF pipeline = "ics" THEN ~FileReadable(SourceAt(i))
  ELSE calendar_ids[i].fetch # "ok"

SourceCount ==
  IF pipeline = "ics" THEN Len(calendar_files) ELSE Len(calendar_ids)

RECURSIVE GatheredAvailable(_)
\* what the available ones of the first n sources gave, stamped
GatheredAvailable(n) ==
  IF n = 0 THEN << >>
  ELSE GatheredAvailable(n - 1)
       \o (IF Unavailable(n) THEN << >>
           ELSE Stamp(returned[n].events, NameAt(n)))

\* C8: an unavailable source does not abort the aggregation.  It raises
\* nothing and adds no occurrence, the loop goes on behind it, and the list
\* returned is the sorted merge of what the other sources gave.
C8_UnavailableSourceIsSkipped ==
  /\ \A i \in Parsed :
       Unavailable(i) =>
         /\ ~returned[i].raised
         /\ returned[i].events = << >>
         /\ idx > i
         /\ status # "raised" \/ i < Len(returned)
  /\ (status = "returned" /\ Len(returned) = SourceCount) =>
       all_events = SortByStart(GatheredAvailable(SourceCount))

\* a batch whose first file is unavailable and whose second gave occurrences
\* has returned them
C8_Witness ==
  /\ pipeline = "ics"
  /\ status = "returned"
  /\ Len(returned) = 2
  /\ Unavailable(1)
  /\ returned[2].events # << >>
  /\ all_events = Stamp(returned[2].events, NameAt(2))

\* ------------------------------------------------------------------- C9

\* C9: a source whose X-WR-TIMEZONE is no zone of the database aborts its own
\* parse only; parse_multiple_calendars still returns, with the occurrences
\* the sources before it gave.
C9_UnknownCalendarZoneIsTolerated ==
  \A i \in Parsed :
    (/\ pipeline = "ics"
     /\ \E j \in 1..(i - 1) : returned[j].events # << >>
     /\ FileReadable(SourceAt(i))
     /\ SourceAt(i).x_wr_timezone # ""
     /\ SourceAt(i).x_wr_timezone \notin KnownZones
     /\ i = Len(returned)) =>
      status # "raised"

\* ------------------------------------------------------------------ C10

\* C10: with a calendar zone or a display zone that is no zone of the
\* database, the parse of a readable source never completes normally.
C10_UnknownZoneIsHardError ==
  \A i \in Parsed :
    (/\ pipeline = "ics"
     /\ FileReadable(SourceAt(i))
     /\ \/ CalTimezone(SourceAt(i), timezone) \notin KnownZones
        \/ timezone \notin KnownZones) =>
      returned[i].raised

\* ------------------------------------------------------------------ C11

\* the i-th source was read and no exception left its parse
Decoded(i) ==
  /\ pipeline = "ics"
  /\ FileReadable(SourceAt(i))
  /\ ~returned[i].raised

\* the three collections the first loop built for the i-th source
PassOf(i) ==
  FirstPass(SourceAt(i).components, EmptyPass,
            CalTimezone(SourceAt(i), timezone),
            returned[i].window_start, returned[i].window_end)

StoredAsSeries(p, c) ==
  \E n \in 1..Len(p.recurring_events) : p.recurring_events[n].component = c

StoredAsOverride(p, c) ==
  \E n \in 1..Len(p.modifications) :
    p.modifications[n]
      = [uid |-> c.uid, key |-> c.recurrence_id, component |-> c]

\* C11: every VEVENT with a DTSTART falls into exactly one variant by the
\* properties it has.  With a recurrence rule and no RECURRENCE-ID it is
\* kept as a series under its uid; with a RECURRENCE-ID, whether or not it
\* has a rule of its own, it is stored under (uid, RECURRENCE-ID), is not
\* a series, is not among the non-recurring events and is not emitted as
\* one; with neither it is no series and no stored override.
C11_ClassifiedByPresence ==
  \A i \in Parsed :
    Decoded(i) =>
      LET p == PassOf(i)
      IN  \A c \in ComponentsOf(i) :
            /\ IsMaster(c) =>
                 /\ \E n \in 1..Len(p.recurring_events) :
                      p.recurring_events[n].uid = c.uid
                 /\ ~StoredAsOverride(p, c)
                 /\ ~InSeq(c, p.single_events)
            /\ IsOverride(c) =>
                 /\ StoredAsOverride(p, c)
                 /\ ~StoredAsSeries(p, c)
                 /\ ~InSeq(c, p.single_events)
                 /\ \A n \in 1..Len(returned[i].events) :
                      ~(/\ returned[i].events[n].is_single
                        /\ returned[i].events[n].summary = c.summary)
            /\ IsStandalone(c) =>
                 /\ ~StoredAsSeries(p, c)
                 /\ ~StoredAsOverride(p, c)

\* ------------------------------------------------------------------ C12

LacksDtstart(c) == c.name = "VEVENT" /\ c.dtstart = NoneVal

\* the document of a source with the VEVENTs without DTSTART taken out
WithoutMalformed(source) ==
  [source EXCEPT !.components = SelectSeq(@, LAMBDA c : ~LacksDtstart(c))]

\* C12: a VEVENT without DTSTART is skipped and nothing else changes: the
\* parse of a document that holds one gives what the parse of the document
\* without it gives, and no exception leaves it when the calendar's zone is
\* a zone of the database.
C12_MissingDtstartIsSkipped ==
  \A i \in Parsed :
    (/\ pipeline = "ics"
     /\ FileReadable(SourceAt(i))
     /\ \E c \in ComponentsOf(i) : LacksDtstart(c)) =>
      LET base == ParseCalendar(WithoutMalformed(SourceAt(i)), start_date_str,
                                days_ahead, timezone,
                                returned[i].window_start)
      IN  /\ returned[i].events = base.events
          /\ returned[i].raised = base.raised
          /\ CalTimezone(SourceAt(i), timezone) \in KnownZones
               => ~returned[i].raised

\* a component without DTSTART that carries a rule stands in front of an
\* event and a series, and both are in the output
C12_Witness ==
  \E i \in Parsed :
    /\ CleanParse(i)
    /\ \E n \in 1..(Len(SourceAt(i).components) - 2) :
         /\ LacksDtstart(SourceAt(i).components[n])
         /\ SourceAt(i).components[n].rrule # NoRule
         /\ IsStandalone(SourceAt(i).components[n + 1])
         /\ IsMaster(SourceAt(i).components[n + 2])
         /\ OccurrencesOf(i, SourceAt(i).components[n + 1].summary) # << >>
         /\ OccurrencesOf(i, SourceAt(i).components[n + 2].summary) # << >>
    /\ OccurrencesOf(i, "nostart") = << >>

\* ------------------------------------------------------------------ C13

\* the document of a source with the component c taken out
WithoutComponent(source, c) ==
  [source EXCEPT !.components = SelectSeq(@, LAMBDA d : d # c)]

\* the processing of the master c of the i-th source raises
FailingSeries(i, c) ==
  /\ IsMaster(c)
  /\ \A o \in ComponentsOf(i) : (IsMaster(o) /\ o # c) => o.uid # c.uid
  /\ SeriesRaises(c.uid, c, PassOf(i).modifications,
                  CalTimezone(SourceAt(i), timezone), timezone,
                  returned[i].window_start, returned[i].window_end)

\* C13: a series whose processing raises adds no occurrence, and the other
\* series and events of the document are output as if it were absent: the
\* parse gives what the parse of the document without that master gives.
C13_FailingSeriesContributesNothing ==
  \A i \in Parsed :
    Decoded(i) =>
      \A c \in ComponentsOf(i) :
        FailingSeries(i, c) =>
          returned[i].events
            = ParseCalendar(WithoutComponent(SourceAt(i), c), start_date_str,
                            days_ahead, timezone,
                            returned[i].window_start).events

\* ------------------------------------------------------------------ C14

\* C14: every output occurrence of a parsed document, from a series, from a
\* replacing component or from a non-recurring event, ends at or after its
\* start and has a duration_minutes of zero or more.
C14_EndNotBeforeStart ==
  \A i \in Parsed :
    pipeline = "ics" =>
      \A n \in 1..Len(returned[i].events) :
        /\ returned[i].events[n].end_utc >= returned[i].events[n].start_utc
        /\ returned[i].events[n].duration_minutes >= 0

\* ------------------------------------------------------------------ C15

\* the length of a component without DTEND: its DURATION, or one hour when
\* it has none
LengthWithoutDtend(c) ==
  IF c.duration # NoDuration THEN c.duration.v ELSE OneHour

\* C15: the default of one hour applies only to a component with neither
\* DTEND nor DURATION.  The output occurrences of a non-recurring event, of
\* a series and of a replacing component without DTEND end at their start
\* plus the DURATION of the component when it has one, and at their start
\* plus one hour when it has none.
C15_DurationBeforeDefault ==
  \A i \in Parsed :
    CleanParse(i) =>
      \A c \in ComponentsOf(i) :
        (c.name = "VEVENT" /\ c.dtstart # NoneVal /\ IsTimed(c)
         /\ c.dtend = NoneVal) =>
          \A n \in 1..Len(returned[i].events) :
            LET e == returned[i].events[n]
                from_c ==
                  \/ IsStandalone(c) /\ e.is_single /\ e.summary = c.summary
                  \/ IsMaster(c) /\ e.is_recurring /\ ~e.is_modified
                     /\ e.summary = c.summary
                  \/ /\ IsOverride(c) /\ e.is_modified
                     /\ e.start_utc
                          = ToAware(c.dtstart,
                                    CalTimezone(SourceAt(i), timezone))
            IN  from_c => e.end_utc - e.start_utc = LengthWithoutDtend(c)

\* ------------------------------------------------------------------ C16

\* a series whose output starts are its expanded instants: a master with
\* date-time values and a rule the evaluator accepts, without EXDATE, whose
\* uid and summary no other component of the document shares
IsBareSeries(i, c) ==
  /\ IsMaster(c) /\ IsTimed(c)
  /\ c.rrule # BadRule
  /\ c.exdates = << >>
  /\ \A o \in ComponentsOf(i) :
       o # c => (o.uid # c.uid /\ o.summary # c.summary)

\* the number of the last step of the rule of c that is not behind the
\* window of the i-th parse, -1 when there is none
LastStep(i, c) ==
  LET seed == ToAware(c.dtstart, CalTimezone(SourceAt(i), timezone))
      top == IF returned[i].window_end < seed THEN 0 - 1
             ELSE (returned[i].window_end - seed) \div RulePeriod(c.rrule)
  IN  IF c.rrule.count > 0 THEN Min(top, c.rrule.count - 1) ELSE top

\* C16: the instants expanded for a series and a window, read off the starts
\* of its occurrences, are strictly increasing, lie in the closed interval
\* [window_start, window_end] and are instants of the rule counted from the
\* UTC seed in UTC steps; and every instant of the rule in that closed
\* interval, one equal to window_start or to window_end included, is among
\* them.
C16_ExpansionOrderedAndInclusive ==
  \A i \in Parsed :
    CleanParse(i) =>
      \A c \in ComponentsOf(i) :
        IsBareSeries(i, c) =>
          LET out == OccurrencesOf(i, c.summary)
              seed == ToAware(c.dtstart, CalTimezone(SourceAt(i), timezone))
              p == RulePeriod(c.rrule)
              ws == returned[i].window_start
              we == returned[i].window_end
          IN  /\ \A n \in 1..(Len(out) - 1) :
                   out[n].start_utc < out[n + 1].start_utc
              /\ \A n \in 1..Len(out) :
                   /\ ws <= out[n].start_utc /\ out[n].start_utc <= we
                   /\ out[n].start_utc >= seed
                   /\ (out[n].start_utc - seed) % p = 0
              /\ \A k \in 0..LastStep(i, c) :
                   seed + k * p >= ws =>
                     \E n \in 1..Len(out) : out[n].start_utc = seed + k * p

\* the first expanded instant of a series is window_start and the last is
\* window_end
C16_Witness ==
  \E i \in Parsed :
    /\ CleanParse(i)
    /\ \E c \in ComponentsOf(i) :
         /\ IsBareSeries(i, c)
         /\ Len(OccurrencesOf(i, c.summary)) > 2
         /\ OccurrencesOf(i, c.summary)[1].start_utc
              = returned[i].window_start
         /\ OccurrencesOf(i, c.summary)[Len(OccurrencesOf(i, c.summary))]
              .start_utc = returned[i].window_end

\* ------------------------------------------------------------------ C17

Abs(x) == IF x >= 0 THEN x ELSE 0 - x

\* a series whose output starts are its expanded instants less the excluded
\* ones: as IsBareSeries, with EXDATEs that are datetimes
IsExdateSeries(i, c) ==
  /\ IsMaster(c) /\ IsTimed(c)
  /\ c.rrule # BadRule
  /\ \A n \in 1..Len(c.exdates) : ~IsDateOnly(c.exdates[n])
  /\ \A o \in ComponentsOf(i) :
       o # c => (o.uid # c.uid /\ o.summary # c.summary)

\* C17: a generated instant is dropped if and only if it lies at most 60
\* seconds from an exception date of its series, in UTC: an instant exactly
\* 60 seconds from an EXDATE is dropped, one further away from all of them
\* is kept.
C17_DroppedIffWithinSixty ==
  \A i \in Parsed :
    CleanParse(i) =>
      \A c \in ComponentsOf(i) :
        IsExdateSeries(i, c) =>
          LET out == OccurrencesOf(i, c.summary)
              instants == InstantsOf(i, c)
              exdates == ExdateInstants(c, CalTimezone(SourceAt(i), timezone))
          IN  \A k \in 1..Len(instants) :
                (\A n \in 1..Len(out) : out[n].start_utc # instants[k])
                <=> (\E x \in 1..Len(exdates) :
                       Abs(instants[k] - exdates[x]) <= ExdateTolerance)

\* ------------------------------------------------------------------ C18

\* the component o is stored as a replacement of the series of master c, and
\* its RECURRENCE-ID lies within the tolerance of the generated instant t
\* without being equal to it
NearlyReplaces(i, o, c, t) ==
  LET rid == ToAware(o.recurrence_id, CalTimezone(SourceAt(i), timezone))
  IN  /\ IsOverride(o) /\ IsTimed(o)
      /\ o.rrule # NoRule
      /\ o.recurrence_id.k = "aware"
      /\ o.uid = c.uid
      /\ InSeq(t, InstantsOf(i, c))
      /\ rid # t
      /\ Abs(rid - t) <= ExdateTolerance

\* C18: replacing components are matched with the tolerance of the exception
\* dates: one whose RECURRENCE-ID is at most 60 seconds from a generated
\* instant of its series, and not equal to it, is applied to that
\* occurrence, which is output with is_modified = TRUE and the start and
\* end of the replacing component.
C18_OverrideMatchedWithTolerance ==
  \A i \in Parsed :
    CleanParse(i) =>
      \A c \in ComponentsOf(i), o \in ComponentsOf(i) :
        (/\ IsMaster(c) /\ IsTimed(c) /\ c.rrule # BadRule
         /\ c.exdates = << >>) =>
          \A t \in {InstantsOf(i, c)[k] : k \in 1..Len(InstantsOf(i, c))} :
            NearlyReplaces(i, o, c, t) =>
              LET cz == CalTimezone(SourceAt(i), timezone)
              IN  \E n \in 1..Len(returned[i].events) :
                    /\ returned[i].events[n].is_modified
                    /\ returned[i].events[n].start_utc
                         = ToAware(o.dtstart, cz)
                    /\ returned[i].events[n].end_utc = LaterPassEnd(o, cz)

\* ------------------------------------------------------------------ C19

\* the component o is stored as a replacement of the series of master c, and
\* its RECURRENCE-ID is a naive datetime that reads, in the calendar's zone,
\* the local time of a generated instant of the window
NaivelyReplaces(i, o, c) ==
  /\ IsOverride(o) /\ IsTimed(o)
  /\ o.rrule # NoRule
  /\ o.recurrence_id.k = "naive"
  /\ o.uid = c.uid
  /\ InSeq(Localize(o.recurrence_id.v, CalTimezone(SourceAt(i), timezone)),
           InstantsOf(i, c))

\* C19: the instants the first loop stores are aware, the keys of the
\* replacing components included.  A naive RECURRENCE-ID is localized with
\* the calendar's zone when the component is stored, so a replacing
\* component whose naive RECURRENCE-ID is the local time of a generated
\* occurrence is found by the lookup for that occurrence, which is output
\* with is_modified = TRUE and the start of the replacing component.
C19_NaiveRecurrenceIdLocalized ==
  \A i \in Parsed :
    CleanParse(i) =>
      \A c \in ComponentsOf(i), o \in ComponentsOf(i) :
        (/\ IsMaster(c) /\ IsTimed(c) /\ c.rrule # BadRule
         /\ c.exdates = << >>
         /\ NaivelyReplaces(i, o, c)) =>
          /\ \A n \in 1..Len(PassOf(i).modifications) :
               PassOf(i).modifications[n].key.k = "aware"
          /\ \E n \in 1..Len(returned[i].events) :
               /\ returned[i].events[n].is_modified
               /\ returned[i].events[n].start_utc
                    = ToAware(o.dtstart, CalTimezone(SourceAt(i), timezone))

\* ------------------------------------------------------------------ C20

\* the elapsed time from the start to the end of a master whose end is its
\* DTEND, or the default of one hour
MasterElapsed(c, cal_timezone) ==
  IF c.dtend = NoneVal THEN OneHour
  ELSE ToAware(c.dtend, cal_timezone) - ToAware(c.dtstart, cal_timezone)

\* the occurrences of the series of master c that no component replaced
UnreplacedOf(i, c) ==
  SelectSeq(returned[i].events,
            LAMBDA e : e.is_recurring /\ ~e.is_modified
                       /\ e.summary = c.summary)

\* a master with date-time values and an accepted rule whose summary no
\* other master of the document shares
IsTimedSeries(i, c) ==
  /\ IsMaster(c) /\ IsTimed(c)
  /\ c.rrule # BadRule
  /\ \A o \in ComponentsOf(i) :
       (IsMaster(o) /\ o # c) => (o.summary # c.summary /\ o.uid # c.uid)

\* C20: the occurrences of a series that no component replaces all have the
\* same elapsed time from start to end, on either side of a daylight-saving
\* change too, and it is the elapsed time from the start to the end of the
\* master.  The second part is stated for a master whose end is its DTEND or
\* the default hour; the end of a master with a DURATION is the matter of
\* C15.
C20_ElapsedLengthPreserved ==
  \A i \in Parsed :
    CleanParse(i) =>
      \A c \in ComponentsOf(i) :
        IsTimedSeries(i, c) =>
          LET out == UnreplacedOf(i, c)
              cz == CalTimezone(SourceAt(i), timezone)
          IN  /\ \A n, m \in 1..Len(out) :
                   out[n].end_utc - out[n].start_utc
                     = out[m].end_utc - out[m].start_utc
              /\ (c.dtend # NoneVal \/ c.duration = NoDuration) =>
                   \A n \in 1..Len(out) :
                     out[n].end_utc
                       = out[n].start_utc + MasterElapsed(c, cz)

\* a series of New York whose master spans the hour of the spring-forward
\* has occurrences of the master's elapsed hour, and a series with a DTEND
\* has occurrences of its length before and after the change
C20_Witness ==
  \E i \in Parsed :
    /\ CleanParse(i)
    /\ SourceAt(i).x_wr_timezone = "America/New_York"
    /\ \E c \in ComponentsOf(i) :
         /\ IsTimedSeries(i, c)
         /\ c.dtend # NoneVal
         /\ Len(UnreplacedOf(i, c)) > 1
         /\ \/ /\ c.dtstart.k = "naive"
               /\ ToAware(c.dtstart, "America/New_York") < DstTransitionUtc
               /\ ToAware(c.dtend, "America/New_York") > DstTransitionUtc
               /\ c.dtend.v - c.dtstart.v
                    # MasterElapsed(c, "America/New_York")
            \/ /\ UnreplacedOf(i, c)[1].start_utc < DstTransitionUtc
               /\ UnreplacedOf(i, c)[Len(UnreplacedOf(i, c))].start_utc
                    > DstTransitionUtc
               /\ MasterElapsed(c, "America/New_York") > OneHour

\* ------------------------------------------------------------------ C21

\* C21: every occurrence of the output of either pipeline has for
\* duration_minutes the elapsed seconds from its start to its end divided by
\* sixty and rounded down: duration_minutes * 60 <= elapsed
\* < (duration_minutes + 1) * 60, whether the elapsed time is a whole number
\* of minutes or not.
C21_DurationMinutesIsFloor ==
  \A i \in Parsed :
    \A n \in 1..Len(returned[i].events) :
      LET e == returned[i].events[n]
          elapsed == e.end_utc - e.start_utc
      IN  /\ e.duration_minutes * SecondsPerMinute <= elapsed
          /\ elapsed < (e.duration_minutes + 1) * SecondsPerMinute

\* ------------------------------------------------------------------ C22

\* the second loop looks the component o up for a generated instant of the
\* series of master c: o is stored under the uid of c and an aware
\* RECURRENCE-ID that is that instant, and no other component is stored
\* under the same key
AppliedTo(i, o, c) ==
  /\ IsOverride(o) /\ o.rrule # NoRule
  /\ o.recurrence_id.k = "aware"
  /\ o.uid = c.uid
  /\ InSeq(o.recurrence_id.v, InstantsOf(i, c))
  /\ \A x \in ComponentsOf(i) :
       (IsOverride(x) /\ x.uid = o.uid
        /\ x.recurrence_id = o.recurrence_id) => x = o

\* the occurrences of the output that come from the series of master c
SeriesOutput(i, c) ==
  SelectSeq(returned[i].events,
            LAMBDA e : e.is_recurring /\ e.summary = c.summary)

\* C22: whether an occurrence of a series is output is decided by its
\* generated instant alone.  Every generated instant of the window gives one
\* occurrence, replaced or not, and a replaced occurrence is output with the
\* start and the end of the replacing component wherever they lie: no
\* window test is applied to them, so an occurrence of the output may lie
\* entirely outside the window.  Stated for the series whose processing
\* does not fail: date-time values, an accepted rule, no EXDATE.
C22_OutputDecidedByGeneratedInstant ==
  \A i \in Parsed :
    CleanParse(i) =>
      \A c \in ComponentsOf(i) :
        (/\ IsTimedSeries(i, c)
         /\ c.exdates = << >>
         /\ \A o \in ComponentsOf(i) :
              (IsOverride(o) /\ o.uid = c.uid) => IsTimed(o)) =>
          LET cz == CalTimezone(SourceAt(i), timezone)
              out == SeriesOutput(i, c)
          IN  /\ Len(out) = Len(InstantsOf(i, c))
              /\ \A o \in ComponentsOf(i) :
                   AppliedTo(i, o, c) =>
                     \E n \in 1..Len(out) :
                       /\ out[n].is_modified
                       /\ out[n].start_utc = ToAware(o.dtstart, cz)
                       /\ out[n].end_utc = LaterPassEnd(o, cz)

\* a replaced occurrence of the output that ends before the window starts,
\* or starts after the window ends
C22_Witness ==
  \E i \in Parsed :
    /\ CleanParse(i)
    /\ \E c \in ComponentsOf(i), o \in ComponentsOf(i) :
         /\ IsTimedSeries(i, c) /\ c.exdates = << >>
         /\ IsTimed(o)
         /\ AppliedTo(i, o, c)
         /\ \E n \in 1..Len(SeriesOutput(i, c)) :
              LET e == SeriesOutput(i, c)[n]
              IN  /\ e.is_modified
                  /\ e.start_utc = ToAware(o.dtstart, "UTC")
                  /\ \/ e.end_utc < returned[i].window_start
                     \/ e.start_utc > returned[i].window_end

\* ------------------------------------------------------------------ C23

\* the n-th and the m-th component of the i-th source are series without
\* RECURRENCE-ID under one uid, the n-th before the m-th, and no other
\* component of the document has the summary of either
SameUidSeries(i, n, m) ==
  LET comps == SourceAt(i).components
  IN  /\ n < m
      /\ IsMaster(comps[n]) /\ IsMaster(comps[m])
      /\ comps[n].uid = comps[m].uid
      /\ \A k \in 1..Len(comps) :
           /\ (k # n => comps[k].summary # comps[n].summary)
           /\ (k # m => comps[k].summary # comps[m].summary)

\* the m-th component is the last series of its uid in the document
LastOfUid(i, m) ==
  LET comps == SourceAt(i).components
  IN  \A k \in (m + 1)..Len(comps) :
        IsMaster(comps[k]) => comps[k].uid # comps[m].uid

\* C23: the series of a document are kept in a map keyed by the uid alone.
\* Of two recurring components without RECURRENCE-ID that have the same
\* uid, both without UID included, only the last in document order is
\* expanded: the earlier one contributes no occurrence, and the last one
\* gives an occurrence for each instant its rule generates in the window.
C23_LastSeriesOfUidWins ==
  \A i \in Parsed :
    CleanParse(i) =>
      \A n, m \in 1..Len(SourceAt(i).components) :
        SameUidSeries(i, n, m) =>
          LET first == SourceAt(i).components[n]
              last == SourceAt(i).components[m]
          IN  /\ SeriesOutput(i, first) = << >>
              /\ (/\ LastOfUid(i, m)
                  /\ IsTimed(last) /\ last.rrule # BadRule
                  /\ last.exdates = << >>) =>
                   /\ Len(SeriesOutput(i, last)) = Len(InstantsOf(i, last))
                   /\ \A k \in 1..Len(SeriesOutput(i, last)) :
                        SeriesOutput(i, last)[k].end_utc
                          = SeriesOutput(i, last)[k].start_utc
                            + MasterElapsed(last, CalTimezone(SourceAt(i),
                                                              timezone))

\* two series without UID, the first of an hour and the second of two: the
\* output has occurrences of the second only
C23_Witness ==
  \E i \in Parsed :
    /\ CleanParse(i)
    /\ \E n, m \in 1..Len(SourceAt(i).components) :
         /\ SameUidSeries(i, n, m)
         /\ LastOfUid(i, m)
         /\ SourceAt(i).components[n].uid = ""
         /\ SeriesOutput(i, SourceAt(i).components[n]) = << >>
         /\ Len(SeriesOutput(i, SourceAt(i).components[m])) > 1
         /\ MasterElapsed(SourceAt(i).components[n], "UTC")
              # MasterElapsed(SourceAt(i).components[m], "UTC")

\* ------------------------------------------------------------------ C24

\* DTSTART is a date, and DTEND is a date or absent
IsAllDay(c) ==
  /\ IsDateOnly(c.dtstart)
  /\ (c.dtend # NoneVal => IsDateOnly(c.dtend))
  /\ c.duration = NoDuration

\* the end of an all-day component: 00:00 of the date of DTEND in the
\* calendar's zone, or an hour after the start
AllDayEnd(c, cal_timezone) ==
  IF c.dtend = NoneVal THEN Localize(c.dtstart.v, cal_timezone) + OneHour
  ELSE Localize(c.dtend.v, cal_timezone)

\* C24: a DTSTART or DTEND that is a date is read as 00:00 of that date in
\* the calendar's zone by the first loop and by the later loops alike.  A
\* non-recurring all-day event that passes the window test of the first
\* loop is in the output with that start and end, and an all-day series is
\* expanded from that start.
C24_AllDayReadAsMidnight ==
  \A i \in Parsed :
    CleanParse(i) =>
      \A c \in ComponentsOf(i) :
        LET cz == CalTimezone(SourceAt(i), timezone)
            start_dt == Localize(c.dtstart.v, cz)
        IN  /\ (/\ IsStandalone(c) /\ IsAllDay(c)
                /\ InWindow(start_dt, AllDayEnd(c, cz),
                            returned[i].window_start,
                            returned[i].window_end)) =>
                 \E n \in 1..Len(returned[i].events) :
                   /\ returned[i].events[n].summary = c.summary
                   /\ returned[i].events[n].start_utc = start_dt
                   /\ returned[i].events[n].end_utc = AllDayEnd(c, cz)
            /\ (/\ IsMaster(c) /\ IsAllDay(c)
                /\ c.rrule # BadRule /\ c.exdates = << >>
                /\ \A o \in ComponentsOf(i) :
                     (o # c /\ o.rrule # NoRule) => o.uid # c.uid) =>
                 LET out == SeriesOutput(i, c)
                     instants == Between(c.rrule, start_dt,
                                         returned[i].window_start,
                                         returned[i].window_end)
                 IN  /\ Len(out) = Len(instants)
                     /\ \A n \in 1..Len(out) :
                          out[n].start_utc = instants[n]

\* ------------------------------------------------------------------ C25

\* what one step of main() may do to the calls of
\* create_event_from_llm_suggestion and to feedback_history
FeedbackLoopStep ==
  /\ Len(created') <= 1
  /\ created' # created =>
       /\ pc = "choose" /\ choice' = "1"
       /\ Truthy(parsed_response)
       /\ created'[1].event_data = parse_llm_response(raw_llm_response)
       /\ created'[1].iteration = iteration
       /\ pc' \in {"done", "raised"}
       /\ created'[1].created_event \in {"event", "None"} => pc' = "done"
       /\ feedback_history' = feedback_history
  /\ (pc = "choose" /\ choice' = "1") => created' # created
  /\ (pc = "choose" /\ choice' = "5") =>
       /\ pc' = "done"
       /\ created' = << >>
       /\ feedback_history' = feedback_history
  /\ (/\ pc = "suggest"
      /\ iteration' # iteration
      /\ \/ raw_llm_response' = None
         \/ ~Truthy(parse_llm_response(raw_llm_response'))) =>
       /\ pc' = "done"
       /\ created' = << >>
       /\ feedback_history' = feedback_history
  /\ (pc = "choose" /\ choice' \in {"2", "3", "4"}) =>
       /\ Len(feedback_history') = Len(feedback_history) + 1
       /\ SubSeq(feedback_history', 1, Len(feedback_history))
            = feedback_history
       /\ pc' = "suggest"
       /\ created' = created
  /\ (pc = "choose" /\ choice' \notin {"1", "2", "3", "4", "5"}) =>
       /\ feedback_history' = feedback_history
       /\ created' = created
  /\ (pc = "suggest" /\ iteration' # iteration) =>
       /\ iteration' = iteration + 1
       /\ feedback_history' = feedback_history
  /\ pc \in {"done", "raised", "exit"} =>
       (created' = created /\ pc' = pc)

\* C25: in a run of main() create_event_from_llm_suggestion is called at
\* most once, only directly after the answer 1 to a suggestion that parsed,
\* and with the suggestion of that turn; the loop ends right after the call
\* whatever it returns.  The loop ends without a call on the answer 5, when
\* get_llm_suggestion fails and when the response does not parse.  The
\* answers 2, 3 and 4 append exactly one entry to feedback_history and lead
\* to a new suggestion; any other answer leaves feedback_history as it is.
C25_FeedbackLoop == [][FeedbackLoopStep]_vars

\* the loop has ended after a request for another time, an answer that is no
\* choice, and an accepted suggestion whose event could not be created
C25_Witness ==
  /\ pc = "done"
  /\ Len(created) = 1
  /\ created[1].created_event = "None"
  /\ created[1].event_data.explanation # Absent
  /\ Len(feedback_history) = 1
  /\ feedback_history[1][1] = "Requested different time: "
  /\ choice = "1"
  /\ created[1].iteration = 3

=============================================================================
